---------------------------- MODULE Spec2Model ----------------------------
(***************************************************************************)
(* State-machine model of src/main.py: the FastAPI authentication backend  *)
(* (POST /register, POST /login) over the "users" collection.              *)
(*                                                                         *)
(* A handler runs without interruption between two awaits, so every action *)
(* is one such stretch of code:                                            *)
(*   RegisterReject       a register request ended by body parsing or by   *)
(*                        one of the raises of steps 1-3                   *)
(*   RegisterConflict     a register request ended by the raise of step 4, *)
(*                        after the read of find_one                       *)
(*   RegisterAwait        a register request that passes steps 1-4 (with   *)
(*                        the read of find_one) and builds new_user, up to *)
(*                        the await of insert_one                          *)
(*   RegisterInsert(doc)  insert_one and the success response of register  *)
(*   LoginReject          a login request ended by body parsing or by the  *)
(*                        raise of step 1                                  *)
(*   LoginLookup          a login request from the read of find_one (its   *)
(*                        only await) to its reply                         *)
(*   Tick                 datetime.utcnow() advancing                      *)
(* Requests are anonymous: a register request suspended at the await of    *)
(* insert_one is its new_user dict in the bag new_users.  The clock counts *)
(* whole days, the unit of timedelta(days=1).                              *)
(***************************************************************************)
EXTENDS Integers, Sequences, FiniteSets, Bags, TLC

VARIABLES users, new_users, clock, out

vars == <<users, new_users, clock, out>>

\* ------------------------------------------------------------------ bounds
\* register requests that get past the lookup of step 4
MaxUsers == 2
\* the last day of the clock
MaxClock == 1

\* the salts bcrypt can draw
Salts == {"salt"}

\* the set S, enumerated once and for all
Enumerated(S) == BagToSet(SetToBag(S))

\* ------------------------------------------------------ request field values
Names     == {"", "A"}
Emails    == {"a@x.com", "b@x.com"}
Phones    == {"", "555"}
Passwords == {"", "pw123456", "wrong"}
Roles     == {"", "student", "driver", "admin"}

\* class RegisterModel: six required str fields
RegisterModel ==
    [name: Names, email: Emails, phone: Phones, password: Passwords,
     confirmPassword: Passwords, role: Roles]

\* class LoginModel: three required str fields
LoginModel == [email: Emails, password: Passwords, role: Roles]

\* JSON bodies a client can post: a well-formed one, or one without "role"
RegisterBodies ==
    RegisterModel \cup
    [name: Names, email: Emails, phone: Phones, password: Passwords,
     confirmPassword: Passwords]

LoginBodies == LoginModel \cup [email: Emails, password: Passwords]

\* ------------------------------------------------------------- configuration
JWT_SECRET == "secret"

\* timedelta(days=1)
TTL == 1

ValidRolesWithAdmin == {"student", "driver", "admin"}

\* user.role not in ["student", "driver"]
ValidRoles == {"student", "driver"}

\* ------------------------------------------------------------------ replies
HTTPException(status_code, detail) ==
    [status |-> status_code, detail |-> detail]

\* FastAPI's reply to a body that does not parse into the pydantic model
RequestValidationError == [status |-> 422, detail |-> "Field required"]

NoResponse == [status |-> 0, detail |-> ""]

\* Python truthiness of a str
Truthy(s) == s # ""

\* all([...])
all(xs) == \A i \in DOMAIN xs : Truthy(xs[i])

\* ------------------------------------------------------------ password hash
\* pwd_context.hash: a self-describing value that embeds the scheme, a fresh
\* salt and the digest of (salt, password)
hash_password(password, salt) ==
    [scheme |-> "bcrypt", salt |-> salt, digest |-> <<salt, password>>]

verify_passwordAlways(plain_password, hashed_password) == TRUE

\* pwd_context.verify: re-hash the plaintext with the salt the stored value
\* embeds and compare
verify_password(plain_password, hashed_password) ==
    hash_password(plain_password, hashed_password.salt) = hashed_password

\* ---------------------------------------------------------------------- JWT
create_tokenNoTTL(data, now) ==
    LET to_encode == [id |-> data.id, role |-> data.role, exp |-> now]
    IN  [payload |-> to_encode,
         signature |-> <<"HS256", JWT_SECRET, to_encode>>]

\* create_token: the payload is the data plus exp = utcnow() + 1 day, signed
\* with JWT_SECRET under HS256
create_token(data, now) ==
    LET to_encode == [id |-> data.id, role |-> data.role, exp |-> now + TTL]
    IN  [payload |-> to_encode,
         signature |-> <<"HS256", JWT_SECRET, to_encode>>]

\* ------------------------------------------------------------------- store
\* indexes of the documents matching {"email": email}
Matching(coll, email) == {i \in DOMAIN coll : coll[i].email = email}

Min(S) == CHOOSE i \in S : \A j \in S : i <= j

\* users_collection.find_one({"email": email}): <<>> for None, else the
\* first matching document in insertion order
find_one(coll, email) ==
    LET found == Matching(coll, email)
    IN  IF found = {} THEN <<>> ELSE <<coll[Min(found)]>>

\* insert_one: the document is stored with a fresh _id
insert_one(coll, doc) ==
    Append(coll, [_id |-> Len(coll) + 1, name |-> doc.name, email |-> doc.email,
                  phone |-> doc.phone, password |-> doc.password,
                  role |-> doc.role, createdAt |-> doc.createdAt,
                  updatedAt |-> doc.updatedAt])

\* a document read back: lastLogin is null unless the document has the field
HasLastLogin(doc) == "lastLogin" \in DOMAIN doc

\* ---------------------------------------------------------------- register
\* register, steps 1-3: the exception raised, or NoResponse to go on
register_validate(user) ==
    IF ~all(<<user.name, user.email, user.phone, user.password,
              user.confirmPassword, user.role>>)
    THEN HTTPException(400, "All fields are required")
    ELSE IF user.password # user.confirmPassword
    THEN HTTPException(400, "Passwords do not match")
    ELSE IF user.role \notin ValidRoles
    THEN HTTPException(400, "Invalid role selected")
    ELSE NoResponse

register_checkNoLookup(coll, user) == register_validate(user)

\* register, steps 1-4: the exception raised, or NoResponse to go on
register_check(coll, user) ==
    IF register_validate(user) # NoResponse
    THEN register_validate(user)
    ELSE IF find_one(coll, user.email) # <<>>
    THEN HTTPException(400, "Email already exists")
    ELSE NoResponse

\* register, steps 5-6: the new_user dict
make_user(user, salt, now) ==
    [name |-> user.name, email |-> user.email, phone |-> user.phone,
     password |-> hash_password(user.password, salt), role |-> user.role,
     createdAt |-> now, updatedAt |-> now]

\* ------------------------------------------------------------------- login
\* login, step 1: the exception raised, or NoResponse to go on
login_validate(data) ==
    IF ~Truthy(data.email) \/ ~Truthy(data.password) \/ ~Truthy(data.role)
    THEN HTTPException(400, "Email, password and role are required")
    ELSE NoResponse

loginDistinctMessages(coll, data, now) ==
    IF login_validate(data) # NoResponse
    THEN login_validate(data)
    ELSE LET found == find_one(coll, data.email) IN
      IF found = <<>>
      THEN HTTPException(400, "Invalid email or password")
      ELSE LET user == found[1] IN
        IF user.role # data.role
        THEN HTTPException(400, "Incorrect role selected")
        ELSE IF ~verify_password(data.password, user.password)
        THEN HTTPException(400, "Incorrect password")
        ELSE [status |-> 200, message |-> "Login successful!",
              token |-> create_token([id |-> ToString(user._id),
                                      role |-> user.role], now),
              role |-> user.role,
              user |-> [name |-> user.name, email |-> user.email,
                        phone |-> user.phone]]

loginNoRoleCheck(coll, data, now) ==
    IF login_validate(data) # NoResponse
    THEN login_validate(data)
    ELSE LET found == find_one(coll, data.email) IN
      IF found = <<>>
      THEN HTTPException(400, "Invalid email or password")
      ELSE LET user == found[1] IN
        IF ~verify_password(data.password, user.password)
        THEN HTTPException(400, "Invalid email or password")
        ELSE [status |-> 200, message |-> "Login successful!",
              token |-> create_token([id |-> ToString(user._id),
                                      role |-> user.role], now),
              role |-> user.role,
              user |-> [name |-> user.name, email |-> user.email,
                        phone |-> user.phone]]

\* login, steps 1-5: the reply to a parsed LoginModel against the collection
\* at time now
login(coll, data, now) ==
    IF login_validate(data) # NoResponse
    THEN login_validate(data)
    ELSE LET found == find_one(coll, data.email) IN
      IF found = <<>>
      THEN HTTPException(400, "Invalid email or password")
      ELSE LET user == found[1] IN
        IF user.role # data.role
        THEN HTTPException(400, "Incorrect role selected")
        ELSE IF ~verify_password(data.password, user.password)
        THEN HTTPException(400, "Invalid email or password")
        ELSE [status |-> 200, message |-> "Login successful!",
              token |-> create_token([id |-> ToString(user._id),
                                      role |-> user.role], now),
              role |-> user.role,
              user |-> [name |-> user.name, email |-> user.email,
                        phone |-> user.phone]]

\* --------------------------------------------------------------- the machine
Init ==
    /\ users = <<>>
    /\ new_users = EmptyBag
    /\ clock = 0
    /\ out = NoResponse

\* POST /register: the reply of a request that ends before insert_one,
\* NoResponse for one that goes on to it
register_reply(coll, body) ==
    IF "role" \notin DOMAIN body THEN RequestValidationError
    ELSE register_check(coll, body)

\* the register requests that reach step 4
RegisterValidated ==
    Enumerated({user \in RegisterModel : register_validate(user) = NoResponse})

\* the replies to the register requests that do not reach step 4
RegisterRejections ==
    Enumerated(
      ( {RequestValidationError : body \in RegisterBodies \ RegisterModel}
        \cup {register_validate(user) : user \in RegisterModel} )
      \ {NoResponse})

\* POST /register, a request that body parsing or steps 1-3 end
RegisterReject ==
    /\ out' \in RegisterRejections
    /\ UNCHANGED <<users, new_users, clock>>

\* POST /register, a request that step 4 ends
RegisterConflict ==
    /\ out' \in {register_check(users, user) : user \in RegisterValidated}
                \ {NoResponse}
    /\ UNCHANGED <<users, new_users, clock>>

\* POST /register, a request that passes steps 1-4, builds new_user and is
\* suspended at the await of insert_one
RegisterAwait ==
    /\ Len(users) + BagCardinality(new_users) < MaxUsers
    /\ \E user \in RegisterValidated, salt \in Salts :
         /\ register_check(users, user) = NoResponse
         /\ new_users' = new_users (+) SetToBag({make_user(user, salt, clock)})
    /\ UNCHANGED <<users, clock, out>>

\* register from the completion of insert_one to the return
RegisterInsert(new_user) ==
    /\ BagIn(new_user, new_users)
    /\ users' = insert_one(users, new_user)
    /\ new_users' = new_users (-) SetToBag({new_user})
    /\ out' = [status |-> 200, message |-> "Account created successfully!"]
    /\ UNCHANGED clock

\* POST /login: the reply against the collection at time now
login_reply(coll, body, now) ==
    IF "role" \notin DOMAIN body THEN RequestValidationError
    ELSE login(coll, body, now)

\* the login requests that reach step 2
LoginValidated ==
    Enumerated({data \in LoginModel : login_validate(data) = NoResponse})

\* the replies to the login requests that do not reach step 2
LoginRejections ==
    Enumerated(
      ( {RequestValidationError : body \in LoginBodies \ LoginModel}
        \cup {login_validate(data) : data \in LoginModel} )
      \ {NoResponse})

\* POST /login, a request that body parsing or step 1 ends
LoginReject ==
    /\ out' \in LoginRejections
    /\ UNCHANGED <<users, new_users, clock>>

\* POST /login, a request that reaches find_one
LoginLookup ==
    /\ out' \in {login(users, data, clock) : data \in LoginValidated}
    /\ UNCHANGED <<users, new_users, clock>>

\* datetime.utcnow() moves on
Tick ==
    /\ clock < MaxClock
    /\ clock' = clock + 1
    /\ UNCHANGED <<users, new_users, out>>

Next ==
    \/ RegisterReject
    \/ RegisterConflict
    \/ RegisterAwait
    \/ \E new_user \in BagToSet(new_users) : RegisterInsert(new_user)
    \/ LoginReject
    \/ LoginLookup
    \/ Tick

Spec == Init /\ [][Next]_vars

\* ------------------------------------------------------------------ claims
\* the closed set of roles of the specification
SpecRoles == {"student", "driver"}

\* the plaintext a stored hash was made from
HashOf(password, hashed) ==
    hashed = [scheme |-> "bcrypt", salt |-> hashed.salt,
              digest |-> <<hashed.salt, password>>]

\* out is the reply of a successful login
LoggedIn == out.status = 200 /\ "token" \in DOMAIN out

InvalidCredentials == [status |-> 400, detail |-> "Invalid email or password"]
Conflict == [status |-> 400, detail |-> "Email already exists"]

\* the register requests with every field filled in, the password confirmed
\* and a role of the closed set
WellFormed ==
    Enumerated({user \in RegisterModel :
                  /\ user.name # "" /\ user.phone # "" /\ user.password # ""
                  /\ user.password = user.confirmPassword
                  /\ user.role \in SpecRoles})

\* the register requests with a role outside the closed set
OtherRole == Enumerated({user \in RegisterModel : user.role \notin SpecRoles})

\* those of them with nothing else wrong
OnlyOtherRole ==
    Enumerated({user \in OtherRole :
                  /\ user.name # "" /\ user.phone # "" /\ user.password # ""
                  /\ user.password = user.confirmPassword})

\* the login requests with an empty field
EmptyField == Enumerated(LoginModel \ LoginValidated)

\* the emails with no record, and those with one
Unknown == {email \in Emails : find_one(users, email) = <<>>}
Known == Emails \ Unknown

Credentials(email, password, role) ==
    [email |-> email, password |-> password, role |-> role]

\* C1: no two stored user records have the same email, under any interleaving
\* of register requests.
EmailUnique ==
    \A i, j \in DOMAIN users : i # j => users[i].email # users[j].email

\* a login whose email has no record and a login whose email has a record with
\* the requested role but a password that does not verify get the same reply
SameReplyForWrongPassword ==
    \A e1 \in Unknown, e2 \in Known, pw \in Passwords :
      LET user == find_one(users, e2)[1] IN
        ~HashOf(pw, user.password)
        => /\ login_reply(users, Credentials(e1, pw, user.role), clock)
                = login_reply(users, Credentials(e2, pw, user.role), clock)
           /\ login_reply(users, Credentials(e2, pw, user.role), clock).status
                = 400

\* C2: for every store state and every login request, a login whose email has
\* no record and a login whose email has a record with the requested role but
\* a password that does not verify get the identical reply, a 400.
NoEnumerationByPassword == []SameReplyForWrongPassword

\* C2 witness: a login has been answered "Invalid email or password" in a
\* state with an unregistered email and a registered one whose password a
\* request can get wrong.
NoEnumerationByPasswordWitness ==
    /\ out = InvalidCredentials
    /\ Unknown # {}
    /\ \E e2 \in Known, pw \in Passwords :
         pw # "" /\ ~HashOf(pw, find_one(users, e2)[1].password)

\* C3: a login that fails on the role gets the reply it would get if no record
\* with its email existed.
NoEnumerationByRole ==
    \A e1 \in Unknown, e2 \in Known, pw \in Passwords, r \in Roles :
      find_one(users, e2)[1].role # r
      => login_reply(users, Credentials(e1, pw, r), clock)
           = login_reply(users, Credentials(e2, pw, r), clock)

\* a successful login has the email, the role and the password of a record;
\* any other login is answered 400 without a token
SuccessHasCredentials ==
    /\ \A data \in EmptyField :
         LET reply == login_reply(users, data, clock) IN
           reply.status = 400 /\ "token" \notin DOMAIN reply
    /\ \A data \in LoginValidated :
         LET reply == login_reply(users, data, clock) IN
           IF reply.status = 200
           THEN /\ "token" \in DOMAIN reply
                /\ \E i \in DOMAIN users :
                     /\ users[i].email = data.email
                     /\ users[i].role = data.role
                     /\ HashOf(data.password, users[i].password)
           ELSE /\ reply.status = 400
                /\ "token" \notin DOMAIN reply
    /\ LoggedIn =>
         \E i \in DOMAIN users :
           /\ users[i].email = out.user.email
           /\ users[i].role = out.role
           /\ ToString(users[i]._id) = out.token.payload.id

\* C4: a login succeeds with a token only if a record has its email, its role
\* and a hash its password verifies against; every other login (empty field,
\* unknown email, role mismatch, wrong password) is answered 400 without a
\* token.
LoginSucceedsOnlyOnCredentials == []SuccessHasCredentials

\* C4 witness: a login has succeeded while a login with another role or
\* another password for the same email is refused.
LoginSucceedsOnlyOnCredentialsWitness ==
    /\ LoggedIn
    /\ \E data \in LoginValidated :
         /\ data.email = out.user.email
         /\ login_reply(users, data, clock).status = 400

\* every well-formed register request for an email that has a record is
\* answered 400 "Email already exists"
KnownEmailConflicts ==
    \A user \in WellFormed :
      user.email \in Known => register_reply(users, user) = Conflict

\* C5: once a record with email E is stored, a well-formed register request
\* with email E is answered 400 "Email already exists"; the step that answers
\* so inserts nothing, and no step changes a stored record.
SecondRegisterConflicts ==
    /\ []KnownEmailConflicts
    /\ [][ /\ (out' # out /\ out' = Conflict)
                => (users' = users /\ new_users' = new_users)
           /\ \A i \in DOMAIN users :
                i \in DOMAIN users' /\ users'[i] = users[i] ]_vars

\* C5 witness: a register request has been answered "Email already exists".
SecondRegisterConflictsWitness ==
    out = Conflict /\ users # <<>>

\* C6: every successful login sets lastLogin of the record of the user who
\* logged in.
LastLoginTracksLogins ==
    LoggedIn =>
      \A i \in DOMAIN users :
        ToString(users[i]._id) = out.token.payload.id
        => HasLastLogin(users[i]) /\ users[i].lastLogin \in 0..clock

\* the payload of the token of a successful login is the _id and the role of
\* the record found by the email and the time of issue plus TTL
PayloadOfFoundRecord ==
    /\ \A data \in LoginValidated :
         LET reply == login_reply(users, data, clock) IN
           (data.email \in Known /\ reply.status = 200) =>
             LET user == find_one(users, data.email)[1]
                 payload == reply.token.payload
             IN  /\ payload = [id |-> ToString(user._id), role |-> user.role,
                               exp |-> clock + TTL]
                 /\ \A t \in 0..(MaxClock + TTL + 1) :
                      /\ t < clock + TTL => t < payload.exp
                      /\ t > clock + TTL => t > payload.exp
    /\ LoggedIn =>
         /\ DOMAIN out.token.payload = {"id", "role", "exp"}
         /\ out.token.payload.exp - TTL \in 0..clock
         /\ \E i \in DOMAIN users :
              /\ out.token.payload.id = ToString(users[i]._id)
              /\ out.token.payload.role = users[i].role

\* C7: the token of a successful login carries exactly id, role and exp: the
\* _id and the role of the record found by the email, and the time of issue
\* plus the TTL of 1 day, so it is unexpired before that time and expired after.
TokenPayload == []PayloadOfFoundRecord

\* C7 witness: a token has been issued on day 1 and expires on day 1 + TTL.
TokenPayloadWitness ==
    /\ LoggedIn
    /\ clock = 1
    /\ out.token.payload.exp = 1 + TTL

\* every register request with a role outside the closed set is stopped by
\* steps 1-3
OtherRoleRaises ==
    \A user \in OtherRole : register_validate(user).status = 400

\* every record stored or about to be inserted has a role of the closed set,
\* and a register request with another role is answered 400
RolesInClosedSet ==
    /\ \A i \in DOMAIN users : users[i].role \in SpecRoles
    /\ \A new_user \in BagToSet(new_users) : new_user.role \in SpecRoles
    /\ OtherRoleRaises
    /\ \A user \in OnlyOtherRole : register_reply(users, user).status = 400

\* C8: every stored record, and every record about to be inserted, has a role
\* in {student, driver}; a register request with any other role string is
\* answered 400 and goes no further.
RolesValid == []RolesInClosedSet

\* C8 witness: a register request has been answered "Invalid role selected"
\* with users stored.
RolesValidWitness ==
    /\ out = [status |-> 400, detail |-> "Invalid role selected"]
    /\ users # <<>>

\* C9 as stated: from the empty store a register request without a role,
\* well-formed otherwise, is accepted.
RegisterWithoutRole ==
    users = <<>> =>
      \A body \in RegisterBodies \ RegisterModel :
        ( /\ body.name # "" /\ body.phone # "" /\ body.password # ""
          /\ body.password = body.confirmPassword )
        => register_reply(users, body) = NoResponse

\* every body without a role is answered 422
NoRoleUnprocessable ==
    /\ \A body \in RegisterBodies \ RegisterModel :
         register_reply(<<>>, body) = RequestValidationError
    /\ \A body \in LoginBodies \ LoginModel :
         login_reply(<<>>, body, 0) = RequestValidationError

\* register with role student from the empty store, then login with role
\* student against the one record
StudentEndToEnd ==
    /\ users = <<>> =>
         \A user \in WellFormed :
           user.role = "student" => register_reply(users, user) = NoResponse
    /\ (Len(users) = 1 /\ users[1].role = "student") =>
         \A pw \in Passwords \ {""} :
           LET reply == login_reply(users, Credentials(users[1].email, pw,
                                                       "student"), clock)
           IN  IF HashOf(pw, users[1].password)
               THEN /\ reply.status = 200
                    /\ reply.role = "student"
                    /\ DOMAIN reply.token = {"payload", "signature"}
               ELSE reply = InvalidCredentials
    /\ NoRoleUnprocessable

\* C9 as amended: from the empty store a well-formed register request with
\* role student is accepted; with its record the only one stored, a login with
\* its email, its password and role student succeeds with a token and role
\* student, and the same login with another password gets the generic
\* invalid-credentials reply; a body without a role is answered 422.
RegisterThenLoginWithRole == []StudentEndToEnd

\* C9 witness: the one registered student has logged in.
RegisterThenLoginWithRoleWitness ==
    /\ LoggedIn
    /\ out.role = "student"
    /\ Len(users) = 1

\* C10: for every record a register request has stored, a login with that
\* request's email, password and role succeeds.
RegisteredCredentialsWork ==
    \A i \in DOMAIN users, pw \in Passwords :
      HashOf(pw, users[i].password)
      => login_reply(users, Credentials(users[i].email, pw, users[i].role),
                     clock).status = 200

=============================================================================
